---- MODULE Spec2Model ----
(***************************************************************************)
(* nsq_exporter: a Prometheus collector that, on every scrape, fetches the *)
(* nsqd statistics document, sets four labelled gauges from it and emits   *)
(* the gauges.  The model follows src/main.go; the command-line flags are  *)
(* those of the flag-enabled variant of the same file.                     *)
(***************************************************************************)
EXTENDS Integers, Sequences, FiniteSets, TLC

\* ------------------------------------------------------------------ bounds

\* Concurrent HTTP workers calling Collect (one per in-flight scrape).
Workers == {1, 2}
\* Scrape requests accepted in one run.
MaxScrapes == 3
\* Longest topic list and longest channel list of a fetched snapshot.
MaxTopics == 2
MaxChannels == 1

\* ------------------------------------------------------------- Go integers

\* A Go int (64 bit) is kept as two limbs, hi * 2^30 + lo, because the
\* counters matter beyond 2^31; the model covers 0 .. 2^61 - 1.
Limb == 2^30
Int64(hi, lo) == [hi |-> hi, lo |-> lo]
Plus(n, d) == Int64(n.hi, n.lo + d)

\* Number of low bits a float64 (53 bit significand) cannot hold of n.
LostBits(n) ==
    IF n.hi < 2^23 THEN 0
    ELSE CHOOSE k \in 1..8 : 2^(22 + k) <= n.hi /\ n.hi < 2^(23 + k)

\* float64(n): exact below 2^53, else round to nearest, ties to even.
ToFloat64(n) ==
    LET q    == 2^LostBits(n)
        r    == n.lo % q
        base == n.lo - r
        up   == (2 * r > q) \/ (2 * r = q /\ (base \div q) % 2 = 1)
        lo2  == IF up THEN base + q ELSE base
    IN  IF lo2 = Limb THEN Int64(n.hi + 1, 0) ELSE Int64(n.hi, lo2)

\* ----------------------------------------------------------- the snapshot

TopicNames == {"t1", "t2"}
ChannelNames == {"c1"}

\* Counter seeds: a small count, and 2^53 + 1 (not a float64).
Small == Int64(0, 1)
Huge == Int64(2^23, 1)

AClient ==
    [client_id |-> "id", hostname |-> "h", version |-> "v",
     remote_address |-> "a", ready_count |-> Int64(0, 1),
     in_flight_count |-> Int64(0, 1), message_count |-> Int64(0, 1),
     finish_count |-> Int64(0, 1), requeue_count |-> Int64(0, 1)]

\* A Channel whose eight counters are pairwise different, so that a series
\* fed from the wrong counter shows.
Channel(name, paused, seed) ==
    [channel_name |-> name,
     depth |-> Plus(seed, 4),
     backend_depth |-> Plus(seed, 8),
     in_flight_count |-> Plus(seed, 6),
     deferred_count |-> Plus(seed, 10),
     message_count |-> Plus(seed, 2),
     requeue_count |-> Plus(seed, 12),
     timeout_count |-> Plus(seed, 14),
     client_count |-> seed,
     clients |-> IF paused THEN <<>> ELSE <<AClient>>,
     paused |-> paused]

\* The channels a snapshot can carry: running with either count, or paused.
Channels ==
    {Channel(n, FALSE, s) : n \in ChannelNames, s \in {Small, Huge}}
    \cup {Channel(n, TRUE, Small) : n \in ChannelNames}

SeqsUpTo(S, n) == UNION {[1..k -> S] : k \in 0..n}

Topic(name, channels) == [topic_name |-> name, channels |-> channels]
Topics == {Topic(n, cs) : n \in TopicNames, cs \in SeqsUpTo(Channels, MaxChannels)}

Stats(topics) == [version |-> "1.0", topics |-> topics]
AllStats == {Stats(ts) : ts \in SeqsUpTo(Topics, MaxTopics)}
\* The snapshots of at most one topic, of one name.
FewStats ==
    {Stats(ts) : ts \in SeqsUpTo({t \in Topics : t.topic_name = "t1"}, 1)}

\* The snapshots whose topics carry up to one channel more, so that a topic
\* can list two channels of different keys, or the same key twice.
LongTopics ==
    {Topic(n, cs) : n \in TopicNames, cs \in SeqsUpTo(Channels, MaxChannels + 1)}
LongStats == {Stats(ts) : ts \in SeqsUpTo(LongTopics, MaxTopics)}

NoStats == [version |-> "", topics |-> <<>>]

\* ------------------------------------------------------------- the gauges

\* The four GaugeVecs of nsqCollector, in the order Collect sets and
\* collects them.
GaugeOrder == <<"client_count", "message_count", "depth", "in_flight_count">>
GaugeNames == {GaugeOrder[i] : i \in 1..4}

FormatBool(b) == IF b THEN "true" ELSE "false"

Labels(topic, channel) ==
    [topic |-> topic.topic_name,
     channel |-> channel.channel_name,
     paused |-> FormatBool(channel.paused)]

\* As GaugeValue, with the depth gauge fed from backend_depth.
GaugeValueOtherDepth(g, channel) ==
    CASE g = "client_count" -> ToFloat64(channel.client_count)
      [] g = "message_count" -> ToFloat64(channel.message_count)
      [] g = "depth" -> ToFloat64(channel.backend_depth)
      [] g = "in_flight_count" -> ToFloat64(channel.in_flight_count)

\* The counter Collect passes to the Set of gauge g.
GaugeValue(g, channel) ==
    CASE g = "client_count" -> ToFloat64(channel.client_count)
      [] g = "message_count" -> ToFloat64(channel.message_count)
      [] g = "depth" -> ToFloat64(channel.depth)
      [] g = "in_flight_count" -> ToFloat64(channel.in_flight_count)

\* a + b on the limbs.
Sum(a, b) ==
    IF a.lo + b.lo >= Limb
    THEN Int64(a.hi + b.hi + 1, a.lo + b.lo - Limb)
    ELSE Int64(a.hi + b.hi, a.lo + b.lo)

\* As WithSet, with Add in the place of Set: v is added to the series.
WithAdd(vec, labels, v) ==
    LET old == {s \in vec : s.labels = labels}
    IN  (vec \ old) \cup
        {[labels |-> labels,
          val |-> IF old = {} THEN v
                  ELSE ToFloat64(Sum((CHOOSE s \in old : TRUE).val, v))]}

\* As WithSet, with a vector that never finds the series of a label tuple
\* and creates one on every call.
WithNew(vec, labels, v) == vec \cup {[labels |-> labels, val |-> v]}

\* As WithSet, with a vector that forgets its other series on every call.
WithOnly(vec, labels, v) == {[labels |-> labels, val |-> v]}

\* A GaugeVec is the set of its series; GaugeVec.With(labels).Set(v) gets or
\* creates the series of the label tuple and stores v in it.
WithSet(vec, labels, v) ==
    {s \in vec : s.labels # labels} \cup {[labels |-> labels, val |-> v]}

\* GaugeVec.Collect: every series the vector holds, sent under the gauge
\* name, with the value it has at the call.
CollectVec(g, vec) == {[gauge |-> g, labels |-> s.labels, val |-> s.val] : s \in vec}

\* The nested range loops of Collect visit the channels in this order.
RECURSIVE Walk(_)
Walk(topics) ==
    IF topics = <<>> THEN <<>>
    ELSE [i \in 1..Len(Head(topics).channels) |->
             [topic |-> Head(topics), channel |-> Head(topics).channels[i]]]
         \o Walk(Tail(topics))

\* ---------------------------------------------------------- configuration

\* The three flag.String variables and their default values.
DefaultFlags ==
    [listenAddress |-> ":9117",
     metricsPath |-> "/metrics",
     nsqdURL |-> "http://localhost:4151/stats"]

\* What a command line can carry for each flag; NotSupplied: flag absent.
NotSupplied == "<absent>"
ArgSets ==
    [listenAddress : {NotSupplied, ":9200"},
     metricsPath : {NotSupplied, "/", "/m"},
     nsqdURL : {NotSupplied, "http://nsqd:4151/stats"}]
NoArgs == [listenAddress |-> NotSupplied, metricsPath |-> NotSupplied,
           nsqdURL |-> NotSupplied]

\* The flag values main works with.  main never calls flag.Parse, so the
\* variables still hold what flag.String stored in them: the defaults.
FlagsInMain(cmdline) == DefaultFlags

\* The URL fetchStats hands to http.Get.
StatsURL(fl) == fl.nsqdURL \o "?format=json"

\* ------------------------------------------------------------ the response

StatusCodes == {200, 500}
Malformed == [kind |-> "malformed"]
EmptyObject == [kind |-> "object"]
Document(stats) == [kind |-> "stats", stats |-> stats]
Bodies == {Malformed, EmptyObject} \cup {Document(s) : s \in AllStats}
FewBodies == {Malformed, EmptyObject} \cup {Document(s) : s \in FewStats}
LongBodies == {Malformed, EmptyObject} \cup {Document(s) : s \in LongStats}
NoResp == [status |-> 0, body |-> Malformed]

\* json.NewDecoder(resp.Body).Decode(&stats): an error for a body that is
\* not the JSON of a Stats; absent fields keep their zero value.
DecodeFails(body) == body.kind = "malformed"
Decode(body) == IF body.kind = "stats" THEN body.stats ELSE NoStats

\* ------------------------------------------------------------------ state

VARIABLES
    args,       \* the command line of the process
    flags,      \* the values of the flag variables
    proc,       \* "start", "serving" or "terminated"
    served,     \* what main registered and listens on
    gauges,     \* the four GaugeVecs of the collector
    pc,         \* per worker: where its Collect call stands
    resp,       \* per worker: the http.Response of fetchStats
    bodyOpen,   \* per worker: resp.Body is not closed yet
    stats,      \* per worker: the decoded Stats
    err,        \* per worker: the error of fetchStats ("nil" if none)
    idx,        \* per worker: channel of the walk being populated
    gi,         \* per worker: gauge being set or collected (index in GaugeOrder)
    emitted,    \* per worker: the metrics sent to ch by this Collect call
    logged,     \* number of "Error fetching stats" lines written
    started,    \* scrape requests accepted so far
    lastURL,    \* URL of the latest http.Get
    fetches,    \* number of http.Get calls issued so far
    lastSet,    \* history: labels -> channel of the latest completed populate
    known,      \* history, per worker: the labels set before its scrape began
    prev        \* history: the scrape that returned last

vars == <<args, flags, proc, served, gauges, pc, resp, bodyOpen, stats, err,
          idx, gi, emitted, logged, started, lastURL, fetches, lastSet,
          known, prev>>

collectVars == <<pc, resp, bodyOpen, stats, err, idx, gi, emitted>>
configVars == <<args, flags, proc, served>>

AllLabels ==
    [topic : TopicNames, channel : ChannelNames, paused : {"true", "false"}]
NoChannel == [channel_name |-> ""]
NoPrev == [ok |-> FALSE, stats |-> NoStats, emitted |-> {}]
NotServed == [listen |-> "", path |-> "", landing |-> FALSE]

\* NewNSQCollector: four empty GaugeVecs; no request is being handled.
InitWith(cmdline) ==
    /\ args = cmdline
    /\ flags = DefaultFlags
    /\ proc = "start"
    /\ served = NotServed
    /\ gauges = [g \in GaugeNames |-> {}]
    /\ pc = [w \in Workers |-> "idle"]
    /\ resp = [w \in Workers |-> NoResp]
    /\ bodyOpen = [w \in Workers |-> FALSE]
    /\ stats = [w \in Workers |-> NoStats]
    /\ err = [w \in Workers |-> "nil"]
    /\ idx = [w \in Workers |-> 1]
    /\ gi = [w \in Workers |-> 1]
    /\ emitted = [w \in Workers |-> {}]
    /\ logged = 0
    /\ started = 0
    /\ lastURL = ""
    /\ fetches = 0
    /\ lastSet = [k \in AllLabels |-> NoChannel]
    /\ known = [w \in Workers |-> {}]
    /\ prev = NoPrev

Init == InitWith(NoArgs)
CfgInit == \E cmdline \in ArgSets : InitWith(cmdline)

\* ------------------------------------------------------------------- main

\* main up to ListenAndServe: the collector is registered, the metrics
\* handler (and the landing page, if the path is not the root) is installed.
Registered(fl) ==
    [listen |-> fl.listenAddress,
     path |-> fl.metricsPath,
     landing |-> fl.metricsPath # "" /\ fl.metricsPath # "/"]

\* http.ListenAndServe binds and serves.
MainServes ==
    /\ proc = "start"
    /\ flags' = FlagsInMain(args)
    /\ served' = Registered(flags')
    /\ proc' = "serving"
    /\ UNCHANGED <<args, gauges, collectVars, logged, started, lastURL,
                   fetches, lastSet, known, prev>>

\* http.ListenAndServe returns an error (the bind fails): log.Fatal.
MainBindFails ==
    /\ proc = "start"
    /\ flags' = FlagsInMain(args)
    /\ served' = Registered(flags')
    /\ proc' = "terminated"
    /\ UNCHANGED <<args, gauges, collectVars, logged, started, lastURL,
                   fetches, lastSet, known, prev>>

\* ---------------------------------------------------------------- Collect

\* The registry calls Collect for a scrape request.
Scrape(w) ==
    /\ proc = "serving"
    /\ pc[w] = "idle"
    /\ started < MaxScrapes
    /\ started' = started + 1
    /\ pc' = [pc EXCEPT ![w] = "get"]
    /\ known' = [known EXCEPT ![w] = {k \in AllLabels : lastSet[k] # NoChannel}]
    /\ UNCHANGED <<configVars, gauges, resp, bodyOpen, stats, err, idx, gi,
                   emitted, logged, lastURL, fetches, lastSet, prev>>

\* As OnFetchError, without the return: Collect goes on to the emission.
OnFetchErrorNoReturn == <<"emit", 1, "serving">>

\* As OnFetchError, with the fetch tried again in the place of the return.
OnFetchErrorRetry == <<"get", 1, "serving">>

\* As OnFetchError, with log.Fatalln in the place of log.Println.
OnFetchErrorFatal == <<"failed", 1, "terminated">>

\* Collect on err != nil: log.Println and return.
\* Gives <<pc of the worker, log lines added, process state>>.
OnFetchError == <<"failed", 1, "serving">>

FetchError(w, kind) ==
    /\ err' = [err EXCEPT ![w] = kind]
    /\ pc' = [pc EXCEPT ![w] = OnFetchError[1]]
    /\ logged' = logged + OnFetchError[2]
    /\ proc' = OnFetchError[3]

\* As GetFails, with a Collect that resets the four gauges when the fetch
\* fails.
GetFailsResets(w) ==
    /\ proc = "serving"
    /\ pc[w] = "get"
    /\ lastURL' = StatsURL(flags)
    /\ fetches' = fetches + 1
    /\ FetchError(w, "get")
    /\ gauges' = [g \in GaugeNames |-> {}]
    /\ UNCHANGED <<args, flags, served, resp, bodyOpen, stats, idx, gi,
                   emitted, started, lastSet, known, prev>>

\* fetchStats: http.Get returns an error.
GetFails(w) ==
    /\ proc = "serving"
    /\ pc[w] = "get"
    /\ lastURL' = StatsURL(flags)
    /\ fetches' = fetches + 1
    /\ FetchError(w, "get")
    /\ UNCHANGED <<args, flags, served, gauges, resp, bodyOpen, stats, idx, gi,
                   emitted, started, lastSet, known, prev>>

\* fetchStats: http.Get returns a response, of any status; its body is open.
GetResponds(w, docs) ==
    /\ proc = "serving"
    /\ pc[w] = "get"
    /\ lastURL' = StatsURL(flags)
    /\ fetches' = fetches + 1
    /\ \E st \in StatusCodes, b \in docs :
          resp' = [resp EXCEPT ![w] = [status |-> st, body |-> b]]
    /\ bodyOpen' = [bodyOpen EXCEPT ![w] = TRUE]
    /\ pc' = [pc EXCEPT ![w] = "decode"]
    /\ UNCHANGED <<configVars, gauges, stats, err, idx, gi, emitted, logged,
                   started, lastSet, known, prev>>

\* As DecodeError, with the Close not deferred but placed after the check of
\* the Decode error: the early return leaves the body open.
DecodeErrorLeaks(w) ==
    /\ proc = "serving"
    /\ pc[w] = "decode"
    /\ DecodeFails(resp[w].body)
    /\ FetchError(w, "decode")
    /\ UNCHANGED <<args, flags, served, gauges, resp, bodyOpen, stats, idx, gi,
                   emitted, started, lastURL, fetches, lastSet, known, prev>>

\* As DecodeError, with a fetchStats that also returns an error for a
\* response whose status is not 200.
DecodeErrorOrStatus(w) ==
    /\ proc = "serving"
    /\ pc[w] = "decode"
    /\ DecodeFails(resp[w].body) \/ resp[w].status # 200
    /\ bodyOpen' = [bodyOpen EXCEPT ![w] = FALSE]
    /\ FetchError(w, "decode")
    /\ UNCHANGED <<args, flags, served, gauges, resp, stats, idx, gi, emitted,
                   started, lastURL, fetches, lastSet, known, prev>>

\* fetchStats: Decode fails; the deferred Close runs; Collect logs, returns.
DecodeError(w) ==
    /\ proc = "serving"
    /\ pc[w] = "decode"
    /\ DecodeFails(resp[w].body)
    /\ bodyOpen' = [bodyOpen EXCEPT ![w] = FALSE]
    /\ FetchError(w, "decode")
    /\ UNCHANGED <<args, flags, served, gauges, resp, stats, idx, gi, emitted,
                   started, lastURL, fetches, lastSet, known, prev>>

\* Where Collect goes once fetchStats returned stats: into the loops, or
\* past them when they have nothing to visit.
AfterFetch(st) == IF Walk(st.topics) = <<>> THEN "emit" ELSE "populate"

\* fetchStats: Decode succeeds; the deferred Close runs; stats are returned.
DecodeOk(w) ==
    /\ proc = "serving"
    /\ pc[w] = "decode"
    /\ ~DecodeFails(resp[w].body)
    /\ bodyOpen' = [bodyOpen EXCEPT ![w] = FALSE]
    /\ stats' = [stats EXCEPT ![w] = Decode(resp[w].body)]
    /\ pc' = [pc EXCEPT ![w] = AfterFetch(stats'[w])]
    /\ idx' = [idx EXCEPT ![w] = 1]
    /\ gi' = [gi EXCEPT ![w] = 1]
    /\ UNCHANGED <<configVars, gauges, resp, err, emitted, logged, started,
                   lastURL, fetches, lastSet, known, prev>>

\* The gauges after one Set of the populate loop: gauge number i, for the
\* visited <<topic, channel>> pair cur.
SetOne(gs, i, cur) ==
    [gs EXCEPT ![GaugeOrder[i]] =
        WithSet(@, Labels(cur.topic, cur.channel),
                GaugeValue(GaugeOrder[i], cur.channel))]

\* The gauges after the Sets of the loops from pair number i, gauge number
\* g on, in the order the loops perform them.
RECURSIVE PopulateFrom(_, _, _, _)
PopulateFrom(gs, walk, i, g) ==
    IF i > Len(walk) THEN gs
    ELSE IF g > 4 THEN PopulateFrom(gs, walk, i + 1, 1)
    ELSE PopulateFrom(SetOne(gs, g, walk[i]), walk, i, g + 1)

\* What the four Collect calls send when the gauges are gs.
CollectAll(gs) == UNION {CollectVec(g, gs[g]) : g \in GaugeNames}

\* What a Collect that fetched st sends when it runs alone from gauges gs.
Emission(gs, st) == CollectAll(PopulateFrom(gs, Walk(st.topics), 1, 1))

\* One c.<gauge>.With(labels).Set(...) of the loop body.
SetStep(w) ==
    /\ proc = "serving"
    /\ pc[w] = "populate"
    /\ LET walk == Walk(stats[w].topics)
           cur == walk[idx[w]]
       IN  /\ gauges' = SetOne(gauges, gi[w], cur)
           /\ IF gi[w] < 4
              THEN /\ gi' = [gi EXCEPT ![w] = gi[w] + 1]
                   /\ UNCHANGED <<idx, pc, lastSet>>
              ELSE /\ gi' = [gi EXCEPT ![w] = 1]
                   /\ idx' = [idx EXCEPT ![w] = idx[w] + 1]
                   /\ lastSet' = [lastSet EXCEPT
                                    ![Labels(cur.topic, cur.channel)] = cur.channel]
                   /\ pc' = [pc EXCEPT ![w] =
                               IF idx[w] = Len(walk) THEN "emit" ELSE "populate"]
    /\ UNCHANGED <<configVars, resp, bodyOpen, stats, err, emitted, logged,
                   started, lastURL, fetches, known, prev>>

\* One c.<gauge>.Collect(ch).
CollectStep(w) ==
    /\ proc = "serving"
    /\ pc[w] = "emit"
    /\ emitted' = [emitted EXCEPT ![w] =
                      @ \cup CollectVec(GaugeOrder[gi[w]], gauges[GaugeOrder[gi[w]]])]
    /\ IF gi[w] < 4
       THEN /\ gi' = [gi EXCEPT ![w] = gi[w] + 1]
            /\ UNCHANGED pc
       ELSE /\ gi' = [gi EXCEPT ![w] = 1]
            /\ pc' = [pc EXCEPT ![w] = "done"]
    /\ UNCHANGED <<configVars, gauges, resp, bodyOpen, stats, err, idx, logged,
                   started, lastURL, fetches, lastSet, known, prev>>

\* Collect has returned: the worker is free for the next request.
Release(w) ==
    /\ proc = "serving"
    /\ pc[w] \in {"done", "failed"}
    /\ pc' = [pc EXCEPT ![w] = "idle"]
    /\ resp' = [resp EXCEPT ![w] = NoResp]
    /\ stats' = [stats EXCEPT ![w] = NoStats]
    /\ err' = [err EXCEPT ![w] = "nil"]
    /\ idx' = [idx EXCEPT ![w] = 1]
    /\ emitted' = [emitted EXCEPT ![w] = {}]
    /\ known' = [known EXCEPT ![w] = {}]
    /\ UNCHANGED <<configVars, gauges, bodyOpen, gi, logged, started, lastURL,
                   fetches, lastSet>>

Return(w) == Release(w) /\ UNCHANGED prev

\* As Return, and the history keeps what this scrape fetched and emitted.
ReturnNoted(w) ==
    /\ Release(w)
    /\ prev' = [ok |-> pc[w] = "done", stats |-> stats[w], emitted |-> emitted[w]]

\* --------------------------------------------------------- specifications

\* Requests are served concurrently, one worker each; the broker answers
\* with documents of at most one topic.
Next ==
    \/ MainServes
    \/ MainBindFails
    \/ \E w \in Workers :
          \/ Scrape(w)
          \/ GetFails(w)
          \/ GetResponds(w, FewBodies)
          \/ DecodeError(w)
          \/ DecodeOk(w)
          \/ SetStep(w)
          \/ CollectStep(w)
          \/ Return(w)

Spec == Init /\ [][Next]_vars

\* One request at a time, all by the same worker; the broker answers with
\* any document.
SeqNext ==
    \/ MainServes
    \/ MainBindFails
    \/ \E w \in {1} :
          \/ Scrape(w)
          \/ GetFails(w)
          \/ GetResponds(w, Bodies)
          \/ DecodeError(w)
          \/ DecodeOk(w)
          \/ SetStep(w)
          \/ CollectStep(w)
          \/ ReturnNoted(w)

SeqSpec == Init /\ [][SeqNext]_vars

\* One request at a time, for every command line.
CfgNext ==
    \/ MainServes
    \/ MainBindFails
    \/ \E w \in {1} :
          \/ Scrape(w)
          \/ GetFails(w)
          \/ GetResponds(w, FewBodies)
          \/ DecodeError(w)
          \/ DecodeOk(w)
          \/ SetStep(w)
          \/ CollectStep(w)
          \/ Return(w)

CfgSpec == CfgInit /\ [][CfgNext]_vars

\* One request at a time; the broker answers the last request with any
\* document of the longer channel lists, the requests before it (which fill
\* the gauges) with documents of at most one topic.
LongOnLast == IF started = MaxScrapes THEN LongBodies ELSE FewBodies
LongNext ==
    \/ MainServes
    \/ MainBindFails
    \/ \E w \in {1} :
          \/ Scrape(w)
          \/ GetFails(w)
          \/ GetResponds(w, LongOnLast)
          \/ DecodeError(w)
          \/ DecodeOk(w)
          \/ SetStep(w)
          \/ CollectStep(w)
          \/ Return(w)

LongSpec == Init /\ [][LongNext]_vars

\* ------------------------------------------------------------ vocabulary

\* The series key of a channel: (topic_name, channel_name, "true"/"false").
KeyOf(topic, channel) ==
    [topic |-> topic.topic_name,
     channel |-> channel.channel_name,
     paused |-> IF channel.paused THEN "true" ELSE "false"]

\* The counter of a channel each gauge is said to expose.
CounterOf(g, channel) ==
    CASE g = "client_count" -> channel.client_count
      [] g = "message_count" -> channel.message_count
      [] g = "depth" -> channel.depth
      [] g = "in_flight_count" -> channel.in_flight_count

\* The keys of the channels of a snapshot.
KeysOf(st) ==
    UNION {{KeyOf(st.topics[i], st.topics[i].channels[j]) :
               j \in 1..Len(st.topics[i].channels)} : i \in 1..Len(st.topics)}

\* Worker w performs a Set, or a Collect of one gauge, in this step.
Setting(w) == pc[w] = "populate" /\ gi'[w] # gi[w]
Collecting(w) == pc[w] = "emit" /\ gi'[w] # gi[w]
\* The pair the populate pass of w is at, and the gauge it sets next.
Visited(w) == Walk(stats[w].topics)[idx[w]]
\* Worker w has performed some, not all, Sets of its populate pass.
MidPopulate(w) == pc[w] = "populate" /\ (idx[w] > 1 \/ gi[w] > 1)

\* The step of a Set writes value v(counter) at the key of the visited
\* channel in the gauge being set, and changes no other series.
SetWrites(w, v(_)) ==
    LET g == GaugeOrder[gi[w]]
        k == KeyOf(Visited(w).topic, Visited(w).channel)
        n == CounterOf(g, Visited(w).channel)
    IN  /\ \E s \in gauges'[g] : s.labels = k
        /\ \A s \in gauges'[g] : s.labels = k => s.val = v(n)
        /\ {s \in gauges'[g] : s.labels # k} = {s \in gauges[g] : s.labels # k}
        /\ \A h \in GaugeNames \ {g} : gauges'[h] = gauges[h]

Same(n) == n
\* float64(n), and n itself up to 2^53.
Widened(n) == ToFloat64(n)
ExactUpTo2p53(n) == n.hi < 2^23 \/ n = Int64(2^23, 0)

\* ------------------------------------------------------------------ claims

\* C1 (as stated): every Set of the populate pass stores the channel's own
\* counter, value unchanged, at the key (topic_name, channel_name,
\* "true"/"false") of the gauge of that counter, and changes nothing else.
C1_SetStoresCounterUnchanged ==
    [][\A w \in Workers : Setting(w) => SetWrites(w, Same)]_vars

\* C1 (amended): every Set of the populate pass stores float64(counter) at
\* that key, which is the counter itself whenever the counter is at most
\* 2^53, and changes no other series; once the pass is over every channel of
\* the snapshot has its key in all four gauges.
C1_SetStep ==
    \A w \in Workers :
        Setting(w) =>
            /\ SetWrites(w, Widened)
            /\ LET g == GaugeOrder[gi[w]]
                   n == CounterOf(g, Visited(w).channel)
               IN  ExactUpTo2p53(n) =>
                      [labels |-> KeyOf(Visited(w).topic, Visited(w).channel),
                       val |-> n] \in gauges'[g]
C1_PassCoversSnapshot ==
    \A w \in Workers :
        (pc[w] \in {"emit", "done"} /\ err[w] = "nil") =>
            \A k \in KeysOf(stats[w]), g \in GaugeNames :
                \E s \in gauges[g] : s.labels = k
\* C1 (amended), the formula: each Set stores float64(counter) at the key and
\* changes nothing else, and the finished pass has covered the snapshot.
C1_SetStoresCounterAsFloat == [][C1_SetStep]_vars /\ []C1_PassCoversSnapshot

\* C1 witness: a scrape of two topics is done, and a counter above 2^53 is
\* stored rounded next to a small counter stored as it is.
C1_Witness ==
    /\ pc[1] = "done"
    /\ Len(Walk(stats[1].topics)) = 2
    /\ \E s \in gauges["message_count"] : s.val = Int64(2^23, 4)
    /\ \E s \in gauges["depth"] : s.val = Int64(0, 5)

\* C2: a scrape whose fetch failed (http.Get error or decode error) emits no
\* series, whatever earlier scrapes left in the gauges.
C2_FailedScrapeEmitsNothing ==
    \A w \in Workers : err[w] # "nil" => emitted[w] = {}

\* C2 witness: a scrape failed on decoding while the gauges hold series of
\* an earlier scrape.
C2_Witness ==
    \E w \in Workers :
        /\ pc[w] = "failed"
        /\ err[w] = "decode"
        /\ \A g \in GaugeNames : gauges[g] # {}

\* C3: no scrape collects a gauge while another scrape has performed only
\* some of the Sets of its populate pass.
C3_PopulateEmitAtomic ==
    [][\A w \in Workers :
          Collecting(w) => \A v \in Workers \ {w} : ~MidPopulate(v)]_vars

\* C4: the series a successful scrape emits are exactly those whose key
\* belongs to a channel of the snapshot it fetched.
C4_EmitsOnlyOwnSnapshot ==
    \A w \in Workers :
        pc[w] = "done" => {s.labels : s \in emitted[w]} = KeysOf(stats[w])

\* C5: a scrape that completes its emission has emitted, in each of the four
\* gauges, every key that was set before the scrape began, and for such a
\* key absent from its own snapshot the four values are those of one
\* snapshot that contained the key: the latest that was populated, or one
\* being populated by another scrape.
C5_Sources(w, k) ==
    {lastSet[k]} \cup
    {Visited(v).channel : v \in {u \in Workers \ {w} :
        /\ pc[u] = "populate"
        /\ KeyOf(Visited(u).topic, Visited(u).channel) = k}}
C5_AtDone(w) ==
    \A k \in known[w] :
        /\ \A g \in GaugeNames :
              \E s \in emitted'[w] : s.gauge = g /\ s.labels = k
        /\ k \notin KeysOf(stats[w]) =>
              \E c \in C5_Sources(w, k) :
                  \A s \in emitted'[w] :
                      s.labels = k => s.val = ToFloat64(CounterOf(s.gauge, c))
\* C5, the formula: the step that completes an emission satisfies the above.
C5_StaleKeyKeepsLastValue ==
    [][\A w \in Workers : (pc[w] = "emit" /\ pc'[w] = "done") => C5_AtDone(w)]_vars

\* C6: of two successive scrapes that fetch the same snapshot, one at a
\* time, the second emits what the first emitted, whatever the gauges held
\* before.
C6_SameSnapshotSameEmission ==
    \A w \in Workers :
        (pc[w] = "done" /\ prev.ok /\ prev.stats = stats[w]) =>
            emitted[w] = prev.emitted

\* C6 witness: the third scrape repeats the snapshot of the second, and
\* emits, besides its own channel, a series left by the first.
C6_Witness ==
    /\ pc[1] = "done"
    /\ started = 3
    /\ prev.ok
    /\ prev.stats = stats[1]
    /\ KeysOf(stats[1]) # {}
    /\ \E s \in emitted[1] : s.labels \notin KeysOf(stats[1])

\* C7: no gauge and no emission holds two series of one key; a Set at a key
\* leaves exactly one series of that key, with the value set, and no series
\* of another key changes (also not the same channel name under another
\* topic); a scrape handled alone emits, for every key of its snapshot, the
\* counters of the last channel of that key.
C7_OnePerKey ==
    /\ \A g \in GaugeNames : \A s1, s2 \in gauges[g] :
          s1.labels = s2.labels => s1 = s2
    /\ \A w \in Workers : \A s1, s2 \in emitted[w] :
          (s1.gauge = s2.gauge /\ s1.labels = s2.labels) => s1 = s2
C7_OwnValues ==
    \A w \in Workers :
        pc[w] = "done" =>
            LET walk == Walk(stats[w].topics)
                K(i) == KeyOf(walk[i].topic, walk[i].channel)
            IN  \A i \in 1..Len(walk) :
                    (\A j \in (i + 1)..Len(walk) : K(j) # K(i)) =>
                        \A g \in GaugeNames :
                            [gauge |-> g, labels |-> K(i),
                             val |-> ToFloat64(CounterOf(g, walk[i].channel))]
                                \in emitted[w]
C7_SetReplaces ==
    \A w \in Workers :
        Setting(w) =>
            LET g == GaugeOrder[gi[w]]
                k == KeyOf(Visited(w).topic, Visited(w).channel)
            IN  /\ Cardinality({s \in gauges'[g] : s.labels = k}) = 1
                /\ {s \in gauges'[g] : s.labels # k}
                       = {s \in gauges[g] : s.labels # k}
\* C7, the formula: one series per key always, own values at the end of a
\* scrape, and every Set replaces.
C7_KeyIsTopicChannelPaused ==
    [](C7_OnePerKey /\ C7_OwnValues) /\ [][C7_SetReplaces]_vars

\* C7 witness: one snapshot has the channel c1, not paused, under t1 and
\* under t2, with different counters; the scrape emitted both.
C7_Witness ==
    /\ pc[1] = "done"
    /\ \E s1, s2 \in emitted[1] :
          /\ s1.gauge = "depth" /\ s2.gauge = "depth"
          /\ s1.labels = [topic |-> "t1", channel |-> "c1", paused |-> "false"]
          /\ s2.labels = [topic |-> "t2", channel |-> "c1", paused |-> "false"]
          /\ s1.val # s2.val
    /\ Len(stats[1].topics) = 2
    /\ stats[1].topics[1].topic_name # stats[1].topics[2].topic_name
    /\ Len(Walk(stats[1].topics)) = 2

\* C8: the process ends only by the failed ListenAndServe of main, before
\* any scrape; once an error of a scrape is logged the process serves on.
C8_OnlyStartupEnds ==
    (proc' = "terminated" /\ proc # "terminated") =>
        (proc = "start" /\ started = 0)
\* C8, the formula: logged scrape errors leave the process serving, and
\* only the start can end it.
C8_ScrapeErrorsNotFatal ==
    [](logged > 0 => proc = "serving") /\ [][C8_OnlyStartupEnds]_vars

\* C8 witness: after a failed http.Get and a failed decode, a third scrape
\* ran to its end and emitted series.
C8_Witness ==
    \E w \in Workers :
        /\ pc[w] = "done"
        /\ logged = 2
        /\ emitted[w] # {}
        /\ proc = "serving"

\* C9: every http.Get goes to the -nsqd.addr of the command line plus
\* "?format=json", and main listens on -web.listen and serves -web.path;
\* the defaults stand in only for a flag the command line leaves out.
Configured(name) ==
    IF args[name] = NotSupplied THEN DefaultFlags[name] ELSE args[name]
C9_CommandLineIsUsed ==
    lastURL # "" =>
        /\ lastURL = Configured("nsqdURL") \o "?format=json"
        /\ served.listen = Configured("listenAddress")
        /\ served.path = Configured("metricsPath")

\* C10: a scrape that fetched a snapshot without topics takes the success
\* path, logs no failure and emits no series.
C10_EmptySnapshotEmitsNothing ==
    \A w \in Workers :
        (pc[w] \in {"emit", "done"} /\ resp[w].body = Document(Stats(<<>>))) =>
            /\ err[w] = "nil"
            /\ emitted[w] = {}

\* C11: every scrape request issues exactly one http.Get and no Get is
\* issued without one (none by registration or Describe); a scrape moves
\* get -> decode -> populate -> emit -> done (past populate when the
\* snapshot has no channel) or get/decode -> failed; it emits nothing
\* before its last Set, sets nothing once it emits, and a failed scrape
\* sets nothing, emits nothing and is not tried again.
PhaseOrder ==
    {<<"idle", "get">>, <<"get", "decode">>, <<"get", "failed">>,
     <<"decode", "failed">>, <<"decode", "populate">>, <<"decode", "emit">>,
     <<"populate", "emit">>, <<"emit", "done">>, <<"done", "idle">>,
     <<"failed", "idle">>}
C11_OneFetchPerRequest ==
    /\ fetches + Cardinality({w \in Workers : pc[w] = "get"}) = started
    /\ proc = "start" => fetches = 0 /\ lastURL = ""
    /\ \A w \in Workers :
          /\ pc[w] \in {"get", "decode", "populate", "failed"} => emitted[w] = {}
          /\ pc[w] = "failed" <=> err[w] # "nil"
C11_PhaseSteps ==
    \A w \in Workers :
        /\ pc'[w] # pc[w] => <<pc[w], pc'[w]>> \in PhaseOrder
        /\ fetches' # fetches /\ pc[w] = "get" /\ pc'[w] # "get" =>
              fetches' = fetches + 1
        /\ pc[w] = "decode" /\ pc'[w] = "emit" =>
              Walk(stats'[w].topics) = <<>>
        /\ pc'[w] = "failed" /\ pc[w] # "failed" =>
              gauges' = gauges /\ emitted' = emitted
        /\ emitted'[w] # emitted[w] => pc[w] \in {"emit", "done", "failed"}
C11_OnlyPopulateSets ==
    gauges' # gauges => \E w \in Workers : Setting(w) /\ err[w] = "nil"
C11_ScrapePhases ==
    /\ []C11_OneFetchPerRequest
    /\ [][C11_PhaseSteps /\ C11_OnlyPopulateSets]_vars

\* C11 witness: of two requests, one ran to the end of its emission pass
\* and the other failed; two Gets were issued.
C11_Witness ==
    \E w, v \in Workers :
        /\ pc[w] = "done" /\ emitted[w] # {}
        /\ pc[v] = "failed" /\ emitted[v] = {}
        /\ fetches = 2 /\ started = 2

\* The snapshots got from st by reordering its topic list and the channel
\* list of each topic.
Bijections(n) == {f \in [1..n -> 1..n] : \A a, b \in 1..n : f[a] = f[b] => a = b}
Reordered(s) == {[i \in 1..Len(s) |-> s[f[i]]] : f \in Bijections(Len(s))}
ChannelsReordered(t) == {[t EXCEPT !.channels = cs] : cs \in Reordered(t.channels)}
Permuted(st) ==
    UNION {{[st EXCEPT !.topics = us] :
               us \in {vs \in [1..Len(ts) -> UNION {ChannelsReordered(ts[i]) :
                                                      i \in 1..Len(ts)}] :
                          \A i \in 1..Len(ts) : vs[i] \in ChannelsReordered(ts[i])}} :
           ts \in Reordered(st.topics)}
\* Every two channels of st under the same key have the same four counters.
SameKeySameCounters(st) ==
    LET walk == Walk(st.topics)
    IN  \A i, j \in 1..Len(walk) :
            KeyOf(walk[i].topic, walk[i].channel)
                = KeyOf(walk[j].topic, walk[j].channel)
            => \A g \in GaugeNames :
                  CounterOf(g, walk[i].channel) = CounterOf(g, walk[j].channel)
\* Worker w has its snapshot and has not performed a Set yet.
BeforePass(w) == pc[w] \in {"populate", "emit"} /\ idx[w] = 1 /\ gi[w] = 1

\* C12 (as stated): whatever snapshot a scrape is about to traverse, the
\* series and values it sends are those it would send for the snapshot with
\* its topic list and channel lists in any other order.
C12_OrderUnobservable ==
    \A w \in Workers :
        BeforePass(w) =>
            \A st \in Permuted(stats[w]) :
                Emission(gauges, st) = Emission(gauges, stats[w])

\* C12 (amended): the same, for the snapshots in which the channels under
\* one key have the same four counters; and what a scrape running alone
\* sends is Emission of its snapshot: every Set is the next Set of
\* PopulateFrom, and the emission pass sends the series the gauges hold.
C12_OrderOfEqualsUnobservable ==
    \A w \in Workers :
        BeforePass(w) /\ SameKeySameCounters(stats[w]) =>
            \A st \in Permuted(stats[w]) :
                Emission(gauges, st) = Emission(gauges, stats[w])
C12_SetIsNextOfPass ==
    \A w \in Workers :
        /\ Setting(w) =>
              PopulateFrom(gauges', Walk(stats[w].topics), idx'[w], gi'[w])
                  = PopulateFrom(gauges, Walk(stats[w].topics), idx[w], gi[w])
        /\ pc[w] = "emit" /\ pc'[w] = "done" => emitted'[w] = CollectAll(gauges)
C12_OrderUnobservableUnlessKeyDiffers ==
    /\ []C12_OrderOfEqualsUnobservable
    /\ [][C12_SetIsNextOfPass]_vars

\* C12 witness: a scrape has sent the series of a snapshot of two topics in
\* which one key occurs twice, with the same counters, and one topic lists
\* two channels of different keys.
C12_Witness ==
    \E w \in Workers :
        /\ pc[w] = "done" /\ emitted[w] # {}
        /\ SameKeySameCounters(stats[w])
        /\ Len(stats[w].topics) = 2
        /\ Cardinality(KeysOf(stats[w])) < Len(Walk(stats[w].topics))
        /\ \E i \in 1..2 :
              LET cs == stats[w].topics[i].channels
              IN  Len(cs) = 2 /\ cs[1].paused # cs[2].paused
        /\ Cardinality(Permuted(stats[w])) > 1

\* C13: the body of a response is open only while fetchStats decodes it:
\* once fetchStats has returned, with the snapshot or with the decode error,
\* the body is closed; a failed Get leaves no response and no body; so no
\* body is open where no fetch is in progress.
C13_BodyClosedOutsideFetch ==
    \A w \in Workers :
        /\ bodyOpen[w] <=> pc[w] = "decode"
        /\ pc[w] = "decode" => resp[w] # NoResp
        /\ err[w] = "get" => resp[w] = NoResp
        /\ err[w] = "decode" => resp[w].body = Malformed

\* C13 witness: one fetch has returned a snapshot and another a decode
\* error; both got a response and neither body is open.
C13_Witness ==
    \E w, v \in Workers :
        /\ pc[w] = "populate" /\ resp[w].body.kind = "stats"
        /\ pc[v] = "failed" /\ err[v] = "decode" /\ resp[v].body = Malformed
        /\ ~bodyOpen[w] /\ ~bodyOpen[v]

\* C14: no step of a scrape that fails changes a gauge, so at the failure
\* every key set so far still holds the value last set at it; and the
\* successful scrape that follows a failed one sends every key that was
\* stored before, with the value last set at it for the keys its own
\* snapshot does not carry, although the failed scrape sent nothing.
StoredAsLastSet(k) ==
    \A g \in GaugeNames :
        {s.val : s \in {t \in gauges[g] : t.labels = k}}
            = {ToFloat64(CounterOf(g, lastSet[k]))}
C14_AtFailure ==
    \A w \in Workers :
        pc[w] = "failed" =>
            /\ emitted[w] = {}
            /\ known[w] = {k \in AllLabels : lastSet[k] # NoChannel}
            /\ \A k \in known[w] : StoredAsLastSet(k)
C14_AfterFailure ==
    \A w \in Workers :
        (pc[w] = "done" /\ started > 1 /\ ~prev.ok) =>
            /\ prev.emitted = {}
            /\ \A k \in known[w], g \in GaugeNames :
                  /\ \E s \in emitted[w] : s.gauge = g /\ s.labels = k
                  /\ k \notin KeysOf(stats[w]) =>
                        \A s \in emitted[w] :
                            (s.gauge = g /\ s.labels = k) =>
                                s.val = ToFloat64(CounterOf(g, lastSet[k]))
C14_FailingStep ==
    \A w \in Workers :
        (pc'[w] # pc[w] /\ (pc'[w] = "failed" \/ pc[w] = "failed")) =>
            gauges' = gauges
C14_FailedScrapeKeepsGauges ==
    /\ [](C14_AtFailure /\ C14_AfterFailure)
    /\ [][C14_FailingStep]_vars

\* C14 witness: the third scrape follows a failed one and has sent a key
\* that the first scrape set and its own snapshot does not carry.
C14_Witness ==
    \E w \in Workers :
        /\ pc[w] = "done" /\ started = 3 /\ ~prev.ok /\ logged > 0
        /\ known[w] \ KeysOf(stats[w]) # {}
        /\ KeysOf(stats[w]) # {}
        /\ \E s \in emitted[w] : s.labels \notin KeysOf(stats[w])

\* C15: whatever the status of the response, a body that is a JSON object
\* puts the scrape on the success path, with the topics of the body, or
\* none when the object has no topics, and adds no log line; a scrape is
\* failed only after an error of the Get or a body that does not decode.
TopicsIn(body) == IF body.kind = "stats" THEN body.stats.topics ELSE <<>>
C15_OutcomeIgnoresStatus ==
    \A w \in Workers :
        /\ pc[w] \in {"populate", "emit", "done"} =>
              /\ resp[w].body.kind \in {"stats", "object"}
              /\ stats[w].topics = TopicsIn(resp[w].body)
              /\ err[w] = "nil"
        /\ pc[w] = "failed" =>
              \/ err[w] = "get" /\ resp[w] = NoResp
              \/ err[w] = "decode" /\ resp[w].body.kind = "malformed"
C15_DecodeStep ==
    \A w \in Workers :
        (pc[w] = "decode" /\ pc'[w] # "decode") =>
            /\ pc'[w] = "failed" <=> resp[w].body.kind = "malformed"
            /\ logged' = logged + (IF resp[w].body.kind = "malformed" THEN 1 ELSE 0)
C15_StatusNeverInspected ==
    /\ []C15_OutcomeIgnoresStatus
    /\ [][C15_DecodeStep]_vars

\* C15 witness: two responses of status 500, one with a snapshot and one
\* with an object without topics, were both taken as snapshots: the first
\* scrape has sent series, the second has reached its emission, and no
\* failure was logged.
C15_Witness ==
    \E w, v \in Workers :
        /\ resp[w].status = 500 /\ resp[w].body.kind = "stats"
        /\ pc[w] = "done" /\ emitted[w] # {}
        /\ resp[v].status = 500 /\ resp[v].body = EmptyObject
        /\ pc[v] = "emit" /\ stats[v].topics = <<>>
        /\ logged = 0

\* C16: while a scrape is in its emission pass the four gauges hold series
\* for the same keys, and a completed emission carries every key it carries
\* for one gauge for all four.
KeysStored(g) == {s.labels : s \in gauges[g]}
KeysSent(w, g) == {s.labels : s \in {t \in emitted[w] : t.gauge = g}}
C16_FourGaugesSameKeys ==
    \A w \in Workers :
        /\ pc[w] = "emit" =>
              \A g, h \in GaugeNames : KeysStored(g) = KeysStored(h)
        /\ pc[w] = "done" =>
              \A g, h \in GaugeNames : KeysSent(w, g) = KeysSent(w, h)

====
